---- MODULE Spec2Model ----
(***************************************************************************)
(* Model of slideshow.py: the batch loop of __main__ and, per dataset,     *)
(* read_dataset -> create_slides -> optimize_slideshow ->                  *)
(* compute_total_score -> write_solution.                                  *)
(*                                                                         *)
(* Photo ids are 0-based as in the source; TLA+ sequences are 1-based, so  *)
(* the photo with id p is photos[p + 1].  A slide is the tuple of the      *)
(* source: <<pid>> or <<v1, v2>>.                                          *)
(*                                                                         *)
(* The integer solver called by optimize_slideshow is a library: it is     *)
(* modelled by its contract, a nondeterministic choice among the           *)
(* assignments of the x variables that are feasible and maximise the       *)
(* objective the source builds.                                            *)
(***************************************************************************)
EXTENDS Integers, Sequences, FiniteSets, TLC

\* ---- bounds ----
MaxPhotos == 3
MaxTagCount == 2
MaxBatch == 2
MaxWideTags == 6

\* Tags are strings in the source; a tag is named here by a number.  Three
\* names are the least vocabulary in which a transition can score.
Tags == 1..3

\* The wider vocabulary of the tag sets interest_factor is applied to alone.
WideTags == 1..MaxWideTags

Orientations == {"H", "V"}

\* One data line of a dataset file after strip().split(): data[0] and
\* set(data[2:]), with at most MaxTagCount tags.  data[1] (the tag count) is
\* never read by the source.
Line ==
  [orientation : Orientations,
   tags : {T \in SUBSET Tags : Cardinality(T) <= MaxTagCount}]

\* A line whose split() is the empty list.
BlankLine == [orientation |-> "", tags |-> {}]

SeqUpTo(S, n) == UNION {[1..k -> S] : k \in 0..n}

\* A dataset file: whether lines[0] exists, whether int() accepts it, its
\* value, and the lines that follow it.
WellFormedFiles ==
  {[hasHeader |-> TRUE, headerIsInt |-> TRUE, N |-> Len(b), body |-> b] :
     b \in SeqUpTo(Line, MaxPhotos)}

MalformedFiles ==
  { [hasHeader |-> FALSE, headerIsInt |-> FALSE, N |-> 0, body |-> <<>>],
    [hasHeader |-> TRUE, headerIsInt |-> FALSE, N |-> 0, body |-> <<>>],
    [hasHeader |-> TRUE, headerIsInt |-> TRUE, N |-> 1, body |-> <<>>],
    [hasHeader |-> TRUE, headerIsInt |-> TRUE, N |-> 1, body |-> <<BlankLine>>] }

Files == WellFormedFiles \cup MalformedFiles

\* ---- helpers ----
Min(a, b) == IF a <= b THEN a ELSE b

Max(a, b) == IF a >= b THEN a ELSE b

\* Python range(start, stop, step) for step > 0, as a sequence.
Range(start, stop, step) ==
  LET n == IF stop > start THEN ((stop - start) + step - 1) \div step ELSE 0
  IN  [k \in 1..n |-> start + (k - 1) * step]

RECURSIVE SumOver(_, _)
SumOver(S, f) ==
  IF S = {} THEN 0
  ELSE LET e == CHOOSE e \in S : TRUE IN f[e] + SumOver(S \ {e}, f)

RECURSIVE MaxOf(_)
MaxOf(S) ==
  LET e == CHOOSE e \in S : TRUE
  IN  IF S = {e} THEN e ELSE Max(e, MaxOf(S \ {e}))

Reverse(s) == [k \in 1..Len(s) |-> s[Len(s) + 1 - k]]

SlideIds(s) == {s[k] : k \in 1..Len(s)}

\* ---- read_dataset ----
read_dataset(f) ==
  IF ~f.hasHeader \/ ~f.headerIsInt
    THEN [raised |-> TRUE, photos |-> <<>>, verticals |-> <<>>]
  ELSE IF f.N > Len(f.body) \/ \E k \in 1..f.N : f.body[k] = BlankLine
    THEN [raised |-> TRUE, photos |-> <<>>, verticals |-> <<>>]
  ELSE
    LET n  == IF f.N > 0 THEN f.N ELSE 0
        ph == [k \in 1..n |->
                 [orientation |-> f.body[k].orientation, tags |-> f.body[k].tags]]
        ids == [k \in 1..n |-> k - 1]
    IN  [raised |-> FALSE,
         photos |-> ph,
         verticals |-> SelectSeq(ids, LAMBDA p : ph[p + 1].orientation = "V")]

\* ---- create_slides ----
create_slides_selfpair(ph, vs) ==
  LET ids == [k \in 1..Len(ph) |-> k - 1]
      hs  == SelectSeq(ids, LAMBDA p : ph[p + 1].orientation = "H")
      r   == Range(0, Len(vs) - 1, 2)
  IN  [k \in 1..Len(hs) |-> <<hs[k]>>] \o
      [k \in 1..Len(r) |-> <<vs[r[k] + 1], vs[r[k] + 1]>>]

create_slides_step1(ph, vs) ==
  LET ids == [k \in 1..Len(ph) |-> k - 1]
      hs  == SelectSeq(ids, LAMBDA p : ph[p + 1].orientation = "H")
      r   == Range(0, Len(vs) - 1, 1)
  IN  [k \in 1..Len(hs) |-> <<hs[k]>>] \o
      [k \in 1..Len(r) |-> <<vs[r[k] + 1], vs[r[k] + 2]>>]

create_slides(ph, vs) ==
  LET ids == [k \in 1..Len(ph) |-> k - 1]
      hs  == SelectSeq(ids, LAMBDA p : ph[p + 1].orientation = "H")
      r   == Range(0, Len(vs) - 1, 2)
  IN  [k \in 1..Len(hs) |-> <<hs[k]>>] \o
      [k \in 1..Len(r) |-> <<vs[r[k] + 1], vs[r[k] + 2]>>]

\* ---- interest_factor ----
interest_factor_two_terms(tags1, tags2) ==
  Min(Cardinality(tags1 \cap tags2), Cardinality(tags1 \ tags2))

interest_factor_union(tags1, tags2) ==
  Min(Cardinality(tags1 \cup tags2),
      Min(Cardinality(tags1 \ tags2), Cardinality(tags2 \ tags1)))

interest_factor(tags1, tags2) ==
  Min(Cardinality(tags1 \cap tags2),
      Min(Cardinality(tags1 \ tags2), Cardinality(tags2 \ tags1)))

\* set().union(*[photos[p]["tags"] for p in s])
slide_tags(ph, s) == UNION {ph[s[k] + 1].tags : k \in 1..Len(s)}

\* ---- optimize_slideshow ----
\* An assignment of the binary x variables is the set X of the indices (in
\* the list slides) of the slides with x = 1.
slide_pairs(sl) == {p \in (1..Len(sl)) \X (1..Len(sl)) : sl[p[1]] # sl[p[2]]}

transition_scores(ph, sl) ==
  [p \in slide_pairs(sl) |->
     interest_factor(slide_tags(ph, sl[p[1]]), slide_tags(ph, sl[p[2]]))]

\* for pid in photos: sum(x[s] for s in slides if pid in s) <= 1
Feasible(ph, sl, X) ==
  \A pid \in 0..(Len(ph) - 1) :
    Cardinality({s \in X : pid \in SlideIds(sl[s])}) <= 1

\* The objective at the best y for the given x: y[s1, s2] <= x[s1] and
\* y[s1, s2] <= x[s2], and every coefficient is >= 0.
Objective(ph, sl, X) ==
  LET ts == transition_scores(ph, sl)
  IN  SumOver({p \in slide_pairs(sl) : p[1] \in X /\ p[2] \in X}, ts)

OptimalSelections(ph, sl) ==
  LET feas == {X \in SUBSET (1..Len(sl)) : Feasible(ph, sl, X)}
      best == MaxOf({Objective(ph, sl, X) : X \in feas})
  IN  {X \in feas : Objective(ph, sl, X) = best}

\* return [s for s in slides if x[s].x > 0.5]
Extract(sl, X) ==
  LET idx == SelectSeq([k \in 1..Len(sl) |-> k], LAMBDA k : k \in X)
  IN  [k \in 1..Len(idx) |-> sl[idx[k]]]

\* Every slideshow optimize_slideshow can return on these inputs.
optimize_slideshow(ph, sl) == {Extract(sl, X) : X \in OptimalSelections(ph, sl)}

\* ---- compute_total_score ----
RECURSIVE ScoreLoop(_, _, _, _, _)
ScoreLoop(show, ph, r, k, total) ==
  IF k > Len(r) THEN total
  ELSE LET i     == r[k]
           tags1 == slide_tags(ph, show[i + 1])
           tags2 == slide_tags(ph, show[i + 2])
       IN  ScoreLoop(show, ph, r, k + 1, total + interest_factor(tags1, tags2))

compute_total_score_short(show, ph) ==
  ScoreLoop(show, ph, Range(0, Len(show) - 2, 1), 1, 0)

compute_total_score(show, ph) ==
  ScoreLoop(show, ph, Range(0, Len(show) - 1, 1), 1, 0)

\* ---- state ----
VARIABLES
  argc,        \* number of datasets on the command line (len(sys.argv) - 1)
  i,           \* 1-based position of the for loop in sys.argv[1:]
  pc,          \* position of the main program
  outcome,     \* per dataset: "pending", "missing", "failed" or "done"
  written,     \* datasets for which write_solution wrote the .sol file
  photos, verticals, slides, solution, score_total

vars == <<argc, i, pc, outcome, written,
          photos, verticals, slides, solution, score_total>>

locals == <<photos, verticals, slides, solution, score_total>>

NoLocals ==
  /\ photos = <<>>
  /\ verticals = <<>>
  /\ slides = <<>>
  /\ solution = <<>>
  /\ score_total = 0

Init ==
  /\ argc \in 0..MaxBatch
  /\ i = 1
  /\ pc = "start"
  /\ outcome = [k \in 1..argc |-> "pending"]
  /\ written = {}
  /\ NoLocals

\* if len(sys.argv) < 2: print usage; sys.exit(1)
Usage ==
  /\ pc = "start" /\ argc = 0
  /\ pc' = "usage_exit"
  /\ UNCHANGED <<argc, i, outcome, written, locals>>

Start ==
  /\ pc = "start" /\ argc >= 1
  /\ pc' = "loop"
  /\ UNCHANGED <<argc, i, outcome, written, locals>>

\* The for loop runs out of datasets.
LoopExit ==
  /\ pc = "loop" /\ i > argc
  /\ pc' = "exit"
  /\ UNCHANGED <<argc, i, outcome, written, locals>>

\* if not os.path.exists(dataset): print error; continue
DatasetMissing ==
  /\ pc = "loop" /\ i <= argc
  /\ outcome' = [outcome EXCEPT ![i] = "missing"]
  /\ i' = i + 1
  /\ UNCHANGED <<argc, pc, written, locals>>

DatasetExists ==
  /\ pc = "loop" /\ i <= argc
  /\ pc' = "read"
  /\ UNCHANGED <<argc, i, outcome, written, locals>>

\* photos, verticals = read_dataset(dataset); an exception it raises is not
\* caught anywhere and ends the process.
ReadDataset ==
  /\ pc = "read"
  /\ \E f \in Files :
       LET r == read_dataset(f)
       IN  IF r.raised
             THEN /\ pc' = "crashed"
                  /\ outcome' = [outcome EXCEPT ![i] = "failed"]
                  /\ UNCHANGED <<photos, verticals>>
             ELSE /\ pc' = "create"
                  /\ photos' = r.photos
                  /\ verticals' = r.verticals
                  /\ UNCHANGED outcome
  /\ UNCHANGED <<argc, i, written, slides, solution, score_total>>

CreateSlides ==
  /\ pc = "create"
  /\ slides' = create_slides(photos, verticals)
  /\ pc' = "optimize"
  /\ UNCHANGED <<argc, i, outcome, written, photos, verticals, solution, score_total>>

OptimizeSlideshow ==
  /\ pc = "optimize"
  /\ \E show \in optimize_slideshow(photos, slides) : solution' = show
  /\ pc' = "score"
  /\ UNCHANGED <<argc, i, outcome, written, photos, verticals, slides, score_total>>

\* The solver library raises (GurobiError: no licence, size limit, ...); the
\* exception is not caught anywhere and ends the process.
SolverFails ==
  /\ pc = "optimize"
  /\ pc' = "crashed"
  /\ outcome' = [outcome EXCEPT ![i] = "failed"]
  /\ UNCHANGED <<argc, i, written, locals>>

ComputeTotalScore ==
  /\ pc = "score"
  /\ score_total' = compute_total_score(solution, photos)
  /\ pc' = "write"
  /\ UNCHANGED <<argc, i, outcome, written, photos, verticals, slides, solution>>

\* write_solution(solution, output_file), the two prints, and the next turn
\* of the for loop.  The text written is the serialisation of solution; the
\* model records only that the file was written.  The locals are dead from
\* here until the next iteration assigns them again, so they are cleared.
WriteSolution ==
  /\ pc = "write"
  /\ written' = written \cup {i}
  /\ outcome' = [outcome EXCEPT ![i] = "done"]
  /\ i' = i + 1
  /\ pc' = "loop"
  /\ photos' = <<>>
  /\ verticals' = <<>>
  /\ slides' = <<>>
  /\ solution' = <<>>
  /\ score_total' = 0
  /\ UNCHANGED argc

Next ==
  \/ Usage
  \/ Start
  \/ LoopExit
  \/ DatasetMissing
  \/ DatasetExists
  \/ ReadDataset
  \/ CreateSlides
  \/ OptimizeSlideshow
  \/ SolverFails
  \/ ComputeTotalScore
  \/ WriteSolution

Spec == Init /\ [][Next]_vars

\* ---- pure-function harness: interest_factor and compute_total_score ----
\* Every sequence of distinct members of the candidate list sl.
Arrangements(sl) ==
  {[k \in 1..Len(ix) |-> sl[ix[k]]] :
     ix \in {s \in SeqUpTo(1..Len(sl), Len(sl)) :
               \A a, b \in 1..Len(s) : a # b => s[a] # s[b]}}

\* The inputs: any photo set read from a well-formed file, and any slideshow
\* over its candidate slides.
ScorerInit ==
  /\ argc = 1
  /\ i = 1
  /\ outcome = <<"pending">>
  /\ written = {}
  /\ pc = "score"
  /\ score_total = 0
  /\ \E f \in WellFormedFiles :
       /\ photos = read_dataset(f).photos
       /\ verticals = read_dataset(f).verticals
  /\ slides = create_slides(photos, verticals)
  /\ solution \in Arrangements(slides)

\* interest_factor applied to the tag sets of a two-slide slideshow.
ApplyInterestFactor ==
  /\ pc = "score" /\ Len(solution) = 2
  /\ score_total' = interest_factor(slide_tags(photos, solution[1]),
                                    slide_tags(photos, solution[2]))
  /\ pc' = "factor"
  /\ UNCHANGED <<argc, i, outcome, written, photos, verticals, slides, solution>>

ScorerNext ==
  \/ ComputeTotalScore
  \/ ApplyInterestFactor

ScorerSpec == ScorerInit /\ [][ScorerNext]_vars

\* interest_factor alone: two horizontal photos with any two tag sets of the
\* wider vocabulary, shown in input order.
FactorInit ==
  /\ argc = 1
  /\ i = 1
  /\ outcome = <<"pending">>
  /\ written = {}
  /\ pc = "score"
  /\ score_total = 0
  /\ \E A, B \in SUBSET WideTags :
       photos = <<[orientation |-> "H", tags |-> A], [orientation |-> "H", tags |-> B]>>
  /\ verticals = <<>>
  /\ slides = create_slides(photos, verticals)
  /\ solution = slides

FactorNext == ApplyInterestFactor

FactorSpec == FactorInit /\ [][FactorNext]_vars

\* ---- one dataset on the command line ----
RunInit == Init /\ argc = 1

RunNext ==
  \/ Start
  \/ LoopExit
  \/ DatasetMissing
  \/ DatasetExists
  \/ ReadDataset
  \/ CreateSlides
  \/ OptimizeSlideshow
  \/ SolverFails
  \/ ComputeTotalScore
  \/ WriteSolution

RunSpec == RunInit /\ [][RunNext]_vars

\* ---- properties ----
PhotoIds == 0..(Len(photos) - 1)

\* Number of slides of show that contain photo pid.
Uses(show, pid) == Cardinality({k \in 1..Len(show) : pid \in SlideIds(show[k])})

\* C1: the slideshow returned by optimize_slideshow on the candidates of
\* create_slides contains each photo id in at most one slide, and the two
\* ids of a vertical slide are distinct.
C1_EachPhotoAtMostOnce ==
  pc \in {"score", "write"} =>
    /\ \A pid \in PhotoIds : Uses(solution, pid) <= 1
    /\ \A k \in 1..Len(solution) :
         Len(solution[k]) = 2 => solution[k][1] # solution[k][2]

C1_Witness ==
  /\ pc = "write"
  /\ Len(solution) = 2
  /\ \E k \in 1..2 : Len(solution[k]) = 2
  /\ \E k \in 1..2 : Len(solution[k]) = 1

\* The best sum of interest_factor over consecutive slides of any sequence
\* of distinct candidate slides: the best continuation after slide last
\* using slides of rest.
RECURSIVE BestFrom(_, _, _, _)
BestFrom(ph, sl, last, rest) ==
  IF rest = {} THEN 0
  ELSE MaxOf({0} \cup
         {interest_factor(slide_tags(ph, sl[last]), slide_tags(ph, sl[n]))
            + BestFrom(ph, sl, n, rest \ {n}) : n \in rest})

BestPathScore(ph, sl) ==
  MaxOf({0} \cup {BestFrom(ph, sl, s, (1..Len(sl)) \ {s}) : s \in 1..Len(sl)})

\* C2: the returned slideshow, scored by compute_total_score, attains the
\* maximum of the consecutive-pair sum over all sequences of distinct
\* candidate slides.
C2_AttainsBestPath ==
  pc = "write" => score_total = BestPathScore(photos, slides)

C4_SingleAndEmpty ==
  pc = "write" =>
    /\ Len(slides) = 1 => (solution = slides /\ score_total = 0)
    /\ Len(slides) = 0 => (solution = <<>> /\ score_total = 0)

\* C5: when the program has stopped, every dataset of the batch has been
\* processed (none was skipped because an earlier one failed), and no
\* solution file was written for a dataset that failed.
C5_BatchContinues ==
  pc \in {"exit", "crashed"} =>
    /\ \A k \in 1..argc : outcome[k] # "pending"
    /\ \A k \in 1..argc : outcome[k] \in {"missing", "failed"} => k \notin written

\* C6: the slideshow and the score do not depend on which optimal
\* assignment the solver returns: every run on the same photo set gives the
\* slideshow and the score of this run.
C6_Deterministic ==
  pc = "write" =>
    \A show \in optimize_slideshow(photos, create_slides(photos, verticals)) :
      /\ show = solution
      /\ compute_total_score(show, photos) = score_total

\* The dataset file that read_dataset turns into the photo sequence ph.
FileOf(ph) == [hasHeader |-> TRUE, headerIsInt |-> TRUE, N |-> Len(ph), body |-> ph]

\* C7: the reported score never decreases when photos are added: every run
\* on this photo set extended by one more photo scores at least the score
\* of this run.
C7_MonotoneInPool ==
  pc = "write" =>
    \A l \in Line :
      LET r  == read_dataset(FileOf(Append(photos, l)))
          sl == create_slides(r.photos, r.verticals)
      IN  \A show \in optimize_slideshow(r.photos, sl) :
            compute_total_score(show, r.photos) >= score_total

\* The union of the tag sets of the photos of slide s, tag by tag.
CombinedTags(ph, s) == {t \in Tags : \E k \in 1..Len(s) : t \in ph[s[k] + 1].tags}

\* C8: compute_total_score returns the sum of interest_factor over the
\* consecutive slides of the slideshow in the order given, a slide's tags
\* being the union of its photos' tags, and it changes neither the
\* slideshow nor the photos.
C8_SumOverConsecutive ==
  /\ [](pc = "write" =>
          score_total =
            SumOver(1..(Len(solution) - 1),
                    [k \in 1..(Len(solution) - 1) |->
                       interest_factor(CombinedTags(photos, solution[k]),
                                       CombinedTags(photos, solution[k + 1]))]))
  /\ [][pc = "score" /\ pc' = "write" =>
          (solution' = solution /\ photos' = photos)]_vars

C8_Witness ==
  /\ pc = "write"
  /\ Len(solution) = 3
  /\ score_total = 2
  /\ solution # slides

\* C9: interest_factor is symmetric, and the score of a slideshow equals the
\* score of the reversed slideshow.
C9_Symmetric ==
  /\ pc = "factor" =>
       score_total = interest_factor(slide_tags(photos, solution[2]),
                                     slide_tags(photos, solution[1]))
  /\ pc = "write" =>
       score_total = compute_total_score(Reverse(solution), photos)

C9_Witness ==
  /\ pc = "write"
  /\ Len(solution) = 3
  /\ score_total = 1
  /\ interest_factor(slide_tags(photos, solution[1]), slide_tags(photos, solution[2]))
       # interest_factor(slide_tags(photos, solution[2]), slide_tags(photos, solution[3]))

\* C10: interest_factor(A, B) is the non-negative integer
\* min(|A n B|, |A \ B|, |B \ A|), and it is 0 when A or B is empty, A = B,
\* A and B are disjoint, or one is a subset of the other.
C10_MinOfThree ==
  pc = "factor" =>
    LET A == slide_tags(photos, solution[1])
        B == slide_tags(photos, solution[2])
        terms == {Cardinality(A \cap B), Cardinality(A \ B), Cardinality(B \ A)}
    IN  /\ score_total \in Nat
        /\ score_total \in terms
        /\ \A t \in terms : score_total <= t
        /\ (A = {} \/ B = {} \/ A = B \/ A \cap B = {}
              \/ A \subseteq B \/ B \subseteq A) => score_total = 0

C10_Witness ==
  /\ pc = "factor"
  /\ score_total = 2
  /\ Cardinality(slide_tags(photos, solution[1]) \cap slide_tags(photos, solution[2])) = 2

====
